---- MODULE Spec2Model ----
(***************************************************************************)
(* Model of groom's transaction coordinator (package executor): the        *)
(* operations.json record, its write-to-temp-and-rename persistence, the   *)
(* operations.lock advisory lock (gofrs/flock), ConsumerStore.Update as    *)
(* called by the daemon's HTTP handlers, and the ExecutorStore API.        *)
(*                                                                         *)
(* Actors.  The daemon serves every HTTP request on its own goroutine; all *)
(* handlers use the single s.executorStore, hence one flock.Flock handle.  *)
(* An executor process owns its own ExecutorStore, hence its own handle.   *)
(* flock(2) excludes between handles (open file descriptions); inside one  *)
(* handle, Flock.TryLock answers true at once when the handle is already   *)
(* marked locked, and Flock.Unlock is a no-op when it is not.              *)
(***************************************************************************)
EXTENDS Naturals, Sequences, FiniteSets, TLC

VARIABLES
    file,        \* content of operations.json
    tmp,         \* per actor: the temp file its running persist created
    flockHolder, \* the handle owning the OS lock on operations.lock, or NoHandle
    locked,      \* per handle: flock.Flock's "l" flag (what Locked() reports)
    pc,          \* per actor: position inside the call it is executing
    call,        \* per actor: arguments and locals of the call in progress
    ret,         \* what the step just taken returned, until its caller has taken it
    staged       \* how many distinct pool files and package names requests have named

vars == <<file, tmp, flockHolder, locked, pc, call, ret, staged>>

----------------------------------------------------------------------------
\* Bounds of the model.

\* number of distinct pool files that can be staged for install
MaxPaths == 2
AllPaths == <<"/pool/a.deb", "/pool/b.deb", "/pool/c.deb", "/pool/d.deb">>

\* the installed directory holds the package of groom itself and these
AllNames == <<"app">>
MaxNames == Len(AllNames)

Paths == {AllPaths[i] : i \in 1..MaxPaths}
Names == {AllNames[i] : i \in 1..MaxNames}

\* the package that contains groom itself
SelfPackageName == "groom-agent"

\* the packages the files of the installed directory resolve to
Installed == Names \cup {SelfPackageName}

\* what stagePurgeAll may read from the installed directory: the packages of
\* the files whose package name can be read, in the order listInstalledOp
\* lists them
Orders ==
    {o \in UNION {[1..n -> Installed] : n \in 0..Cardinality(Installed)} :
        \A i, j \in 1..Len(o) : o[i] = o[j] => i = j}

\* number of HTTP requests the daemon serves, each on its own goroutine
MaxRequests == 2

\* number of times the persist of one ExecutorStore call may fail
MaxFailures == 1

AllRequests == <<"r1", "r2", "r3", "r4", "r5", "r6">>
Req(i) == AllRequests[i]

\* a returned value is observed by its caller before the program takes its
\* next step: no returned value is waiting (a crash returns nothing to anyone)
Ready == ret.op \in {"none", "crash"}

\* the daemon's handler goroutines (one per request), and the executor processes
Goroutines == {Req(i) : i \in 1..MaxRequests}
Executors  == {"x1"}
Actors     == Goroutines \cup Executors

\* requests are interchangeable: they are numbered in the order they arrive;
\* a request arrives once the result of the last call has been taken
MayArrive(g) ==
    /\ Ready
    /\ \E i \in 1..MaxRequests :
          g = Req(i) /\ (IF i = 1 THEN TRUE ELSE pc[Req(i - 1)] # "new")

\* pool files are interchangeable, and so are package names: each kind is
\* numbered in the order in which requests first name them
MayName(arg) ==
    /\ \A i \in 1..MaxPaths : AllPaths[i] = arg => i <= staged.paths + 1
    /\ \A i \in 1..MaxNames : AllNames[i] = arg => i <= staged.names + 1

Named(arg) ==
    [paths |-> IF \E i \in 1..MaxPaths : AllPaths[i] = arg /\ i = staged.paths + 1
               THEN staged.paths + 1 ELSE staged.paths,
     names |-> IF \E i \in 1..MaxNames : AllNames[i] = arg /\ i = staged.names + 1
               THEN staged.names + 1 ELSE staged.names]

----------------------------------------------------------------------------
\* Values.

StatePrepare == "Prepare"
StateRun     == "Run"
StateDone    == "Done"

maxRetries == 5

\* Go's nil (slice or error) against a present value.
None    == <<>>
Some(x) == <<x>>

\* the elements of a possibly nil slice
Items(l) == IF l = None THEN <<>> ELSE l[1]

\* the message of a possibly nil error ("" stands for no message)
Msg(e) == IF e = None THEN "" ELSE e[1]

RolledBackNoError == "RolledBack with no error"

\* error causes an executor may pass to RolledBack / Broken: nil or an error
Causes == {None, Some("apt failed")}

\* result codes of the calls
OK            == "ok"
ErrInProgress == "ErrExecutionInProgress"
ErrNotExist   == "ErrNotExist"
ErrCorrupt    == "unmarshal failed"
ErrNotLocked  == "updateState must be called while holding the operations lock"
ErrConflict   == "cannot start, current state is not Prepare"
ErrPersist    == "persist failed"
ErrNilCause   == "Broken requires a non-nil error"
ErrCancelled  == "failed to acquire operations lock: context canceled"
ErrRetries    == "state mutation failed after 5 retries"
ErrForbidden  == "Cannot stage removal of groom agent itself via API"
ErrNoPlan     == "Cannot commit an empty transaction plan"
ErrNotPrepare == "Transaction not in prepare state"
NothingToDo   == "Transaction plan is empty, nothing to commit."
ErrLaunch     == "failed to start executor"
ErrCallback   == "modification callback failed"

\* the in-memory Operations struct
NoOps == [state |-> "", install |-> None, remove |-> None, err |-> None]

\* a file of the state directory: absent, or a JSON document that may be cut short
NoFile == [exists |-> FALSE, complete |-> FALSE, state |-> "",
           hasInstall |-> FALSE, install |-> <<>>,
           hasRemove |-> FALSE, remove |-> <<>>, error |-> ""]

\* operations.json is present but json.Unmarshal fails on its bytes
CorruptFile == [NoFile EXCEPT !.exists = TRUE]

\* the transient systemd unit in which handleCommitTransaction has the
\* supervisor run the executor
Unit == "groom-executor"

NoHandle == "none"
Handle(a) == IF a \in Goroutines THEN "daemon" ELSE a
Handles == {Handle(a) : a \in Actors}

\* the arguments and locals of a call; names is the list a purge stages, ops
\* is the record the call is persisting
Idle == [op |-> "none", arg |-> "", names |-> <<>>, ops |-> NoOps,
         newState |-> "", errInfo |-> None, attempt |-> 0]

\* a return: who returned from which call, the error (cause: the error that
\* withRetry wraps), the record returned, the attempts withRetry made
NoRet == [actor |-> "none", op |-> "none", err |-> "", cause |-> "",
          ops |-> NoOps, attempts |-> 0]

----------------------------------------------------------------------------
\* Operations methods.

Contains(s, x) == \E i \in 1..Len(s) : s[i] = x

\* an Install that appends without looking
Install_Append(ops, packageFile) ==
    [ops EXCEPT !.install = Some(Append(Items(ops.install), packageFile))]

Install(ops, packageFile) ==
    IF Contains(Items(ops.install), packageFile)
    THEN ops
    ELSE [ops EXCEPT !.install = Some(Append(Items(ops.install), packageFile))]

\* a Remove that appends without looking
Remove_Append(ops, packageName) ==
    [ops EXCEPT !.remove = Some(Append(Items(ops.remove), packageName))]

Remove(ops, packageName) ==
    IF Contains(Items(ops.remove), packageName)
    THEN ops
    ELSE [ops EXCEPT !.remove = Some(Append(Items(ops.remove), packageName))]

\* a Clear that leaves the recorded error
Clear_KeepErr(ops) == [ops EXCEPT !.install = Some(<<>>), !.remove = Some(<<>>)]

Clear(ops) == [ops EXCEPT !.install = Some(<<>>), !.remove = Some(<<>>), !.err = None]

\* the modify callbacks the HTTP handlers pass to Update
Modify(op, arg, ops) ==
    CASE op = "install" -> Install(ops, arg)
      [] op = "remove"  -> Remove(ops, arg)
      [] op = "clear"   -> Clear(ops)
      [] OTHER          -> ops

\* the status the staging and clear handlers answer with, given what Update
\* returned (or the refusal that kept them from calling it)
HttpStatus(op, err) ==
    IF err = OK THEN (IF op = "clear" THEN 200 ELSE 202)
    ELSE IF err = ErrInProgress THEN 409
    ELSE IF err = ErrForbidden THEN 403
    ELSE 500

\* the loop of stagePurgeAll's callback
RECURSIVE RemoveAll(_, _)
RemoveAll(names, ops) ==
    IF names = <<>> THEN ops
    ELSE RemoveAll(Tail(names), Remove(ops, Head(names)))

\* does the modify callback of call c return an error? Those of the HTTP
\* handlers never do; "fail" is a caller of Update whose callback does
CallbackFails(c) == c.op = "fail"

\* the modify callback of call c
Callback(c, ops) ==
    IF c.op = "purge" THEN RemoveAll(c.names, ops)
    ELSE Modify(c.op, c.arg, ops)

\* a self-protect test that lets every package through
IsSelf_Never(pkgName) == FALSE

\* stageRemove / stagePurgeAll: is this the package of groom itself?
IsSelf(pkgName) == pkgName = SelfPackageName

NotSelf(pkgName) == ~IsSelf(pkgName)

\* stagePurgeAll: the packages to remove, in the order the files are listed
PackagesToRemove(order) == SelectSeq(order, NotSelf)

----------------------------------------------------------------------------
\* Serialization.

\* json.MarshalIndent of serializableOperations: omitempty drops empty or nil
\* lists and an empty error string
Marshal(ops) ==
    [exists |-> TRUE, complete |-> TRUE, state |-> ops.state,
     hasInstall |-> Len(Items(ops.install)) > 0, install |-> Items(ops.install),
     hasRemove |-> Len(Items(ops.remove)) > 0, remove |-> Items(ops.remove),
     error |-> Msg(ops.err)]

\* the bytes of a document whose write stopped after the first field
Partial(doc) ==
    [NoFile EXCEPT !.exists = TRUE, !.state = doc.state]

\* a load that leaves omitted lists nil
Unmarshal_KeepNil(doc) ==
    [state   |-> doc.state,
     install |-> IF doc.hasInstall THEN Some(doc.install) ELSE None,
     remove  |-> IF doc.hasRemove THEN Some(doc.remove) ELSE None,
     err     |-> IF doc.error # "" THEN Some(doc.error) ELSE None]

\* json.Unmarshal into serializableOperations, then the conversion to Operations
\* with nil lists replaced by empty ones
Unmarshal(doc) ==
    [state   |-> doc.state,
     install |-> Some(IF doc.hasInstall THEN doc.install ELSE <<>>),
     remove  |-> Some(IF doc.hasRemove THEN doc.remove ELSE <<>>),
     err     |-> IF doc.error # "" THEN Some(doc.error) ELSE None]

\* a load that takes an unparseable file for an absent one
LoadOperations_Lenient(f) ==
    IF ~f.exists \/ ~f.complete THEN [err |-> ErrNotExist, ops |-> NoOps]
    ELSE [err |-> OK, ops |-> Unmarshal(f)]

\* store.Operations: (ops, err)
LoadOperations(f) ==
    IF ~f.exists THEN [err |-> ErrNotExist, ops |-> NoOps]
    ELSE IF ~f.complete THEN [err |-> ErrCorrupt, ops |-> NoOps]
    ELSE [err |-> OK, ops |-> Unmarshal(f)]

----------------------------------------------------------------------------
\* The advisory lock.

\* a TryLock that never looks at the other handles
TryLockOk_Blind(h) == TRUE

\* flock.Flock.TryLock on handle h: would it report true?
TryLockOk(h) == locked[h] \/ flockHolder = NoHandle

\* its effect when it reports true
TryLockTake(h) ==
    IF locked[h]
    THEN UNCHANGED <<flockHolder, locked>>
    ELSE /\ flockHolder' = h
         /\ locked' = [locked EXCEPT ![h] = TRUE]

\* an Unlock that leaves the lock where it is
Unlock_Noop(h) == UNCHANGED <<flockHolder, locked>>

\* flock.Flock.Unlock on handle h
Unlock(h) ==
    IF locked[h]
    THEN /\ flockHolder' = NoHandle
         /\ locked' = [locked EXCEPT ![h] = FALSE]
    ELSE UNCHANGED <<flockHolder, locked>>

----------------------------------------------------------------------------
\* persist, in two steps: the temp file is created and partly written; then
\* the write completes, the file is closed and renamed over operations.json,
\* and the deferred os.Remove runs.

\* a persist that writes operations.json in place
PersistBegin_InPlace(a, ops) ==
    /\ file' = Partial(Marshal(ops))
    /\ UNCHANGED tmp

PersistBegin(a, ops) ==
    /\ tmp' = [tmp EXCEPT ![a] = Partial(Marshal(ops))]
    /\ UNCHANGED file

PersistRename(a) ==
    /\ file' = Marshal(call[a].ops)
    /\ tmp' = [tmp EXCEPT ![a] = NoFile]

\* a failing persist that returns without removing its temp file
PersistAbort_Leave(a) == UNCHANGED <<tmp, file>>

\* create, write, close or rename failed: the deferred os.Remove runs
PersistAbort(a) ==
    /\ tmp' = [tmp EXCEPT ![a] = NoFile]
    /\ UNCHANGED file

\* the call of actor a returns: a handler goroutine ends, an executor
\* process is ready for its next call
ReturnRetried(a, op, err, cause, ops, attempts) ==
    /\ pc' = [pc EXCEPT ![a] = IF a \in Goroutines THEN "done" ELSE "idle"]
    /\ call' = [call EXCEPT ![a] = Idle]
    /\ ret' = [actor |-> a, op |-> op, err |-> err, cause |-> cause,
               ops |-> ops, attempts |-> attempts]

Return(a, op, err, ops) == ReturnRetried(a, op, err, err, ops, 0)

----------------------------------------------------------------------------
\* the daemon starts on a state directory without operations.json, or with
\* one that does not parse
Init ==
    /\ file \in {NoFile, CorruptFile}
    /\ tmp = [a \in Actors |-> NoFile]
    /\ flockHolder = NoHandle
    /\ locked = [h \in Handles |-> FALSE]
    /\ pc = [a \in Actors \cup {Unit} |->
                IF a \in Goroutines THEN "new"
                ELSE IF a = Unit THEN "none"
                ELSE "idle"]
    /\ call = [a \in Actors |-> Idle]
    /\ ret = NoRet
    /\ staged = [paths |-> 0, names |-> 0]

----------------------------------------------------------------------------
\* ConsumerStore.Update, as called by stageInstall / stageRemove /
\* handleClearTransaction.

\* a request calls Update with the callback of c: tryLock; not locked =>
\* ErrExecutionInProgress
UpdateEnter(g, c) ==
    /\ pc[g] = "new"
    /\ MayArrive(g)
    /\ IF TryLockOk(Handle(g))
       THEN /\ TryLockTake(Handle(g))
            /\ pc' = [pc EXCEPT ![g] = "update"]
            /\ call' = [call EXCEPT ![g] = c]
            /\ ret' = NoRet
       ELSE /\ Return(g, "update", ErrInProgress, NoOps)
            /\ UNCHANGED <<flockHolder, locked>>
    /\ UNCHANGED <<file, tmp>>

\* stageInstall (op "install"), stageRemove past its self-protect test (op
\* "remove"), handleClearTransaction (op "clear")
UpdateTryLock(g, op, arg) ==
    /\ MayName(arg)
    /\ staged' = Named(arg)
    /\ UpdateEnter(g, [Idle EXCEPT !.op = op, !.arg = arg])

\* DELETE /installed/{file}: the file resolves to package pkgName
StageRemove(g, pkgName) ==
    IF IsSelf(pkgName)
    THEN /\ pc[g] = "new"
         /\ MayArrive(g)
         /\ Return(g, "stage", ErrForbidden, NoOps)
         /\ UNCHANGED <<file, tmp, flockHolder, locked, staged>>
    ELSE UpdateTryLock(g, "remove", pkgName)

\* stagePurgeAll: the status it answers with, given the packages it found to
\* remove and, when it found some, what Update returned
PurgeStatus(names, err) ==
    IF names = <<>> THEN 200 ELSE HttpStatus("purge", err)

\* DELETE /installed/: the installed files are listed in this order
StagePurgeAll(g, order) ==
    IF PackagesToRemove(order) = <<>>
    THEN /\ pc[g] = "new"
         /\ MayArrive(g)
         /\ Return(g, "stage", OK, NoOps)
         /\ UNCHANGED <<file, tmp, flockHolder, locked, staged>>
    ELSE /\ staged' = [staged EXCEPT !.names = MaxNames]
         /\ UpdateEnter(g, [Idle EXCEPT !.op = "purge",
                                        !.names = PackagesToRemove(order)])

\* an Update that works on whatever the load returned
UpdateLoaded_AsLoaded(f) == LoadOperations(f).ops

\* the record Update works on after its load: the loaded one, or a fresh
\* Prepare record when the file does not exist
UpdateLoaded(f) ==
    IF LoadOperations(f).err = ErrNotExist
    THEN [NoOps EXCEPT !.state = StatePrepare]
    ELSE LoadOperations(f).ops

\* a state check that only refuses a running transaction
UpdateAllowed_NotRunning(ops) == ops.state # StateRun

\* may Update modify the loaded record?
UpdateAllowed(ops) == ops.state = StatePrepare

\* load, state check, modify callback, start of persist
UpdateLoad(g) ==
    /\ Ready
    /\ pc[g] = "update"
    /\ UNCHANGED staged
    /\ IF LoadOperations(file).err = ErrCorrupt
       THEN /\ Unlock(Handle(g))
            /\ Return(g, "update", ErrCorrupt, NoOps)
            /\ UNCHANGED <<file, tmp>>
       ELSE IF ~UpdateAllowed(UpdateLoaded(file))
       THEN /\ Unlock(Handle(g))
            /\ Return(g, "update", ErrInProgress, NoOps)
            /\ UNCHANGED <<file, tmp>>
       ELSE IF CallbackFails(call[g])
       THEN /\ Unlock(Handle(g))
            /\ Return(g, "update", ErrCallback, NoOps)
            /\ UNCHANGED <<file, tmp>>
       ELSE /\ PersistBegin(g, Callback(call[g], UpdateLoaded(file)))
            /\ call' = [call EXCEPT ![g].ops = Callback(call[g], UpdateLoaded(file))]
            /\ pc' = [pc EXCEPT ![g] = "persist"]
            /\ UNCHANGED <<flockHolder, locked>>
            /\ ret' = NoRet

\* persist completes; deferred unlock; return nil
UpdateFinish(g) ==
    /\ Ready
    /\ pc[g] = "persist"
    /\ UNCHANGED staged
    /\ g \in Goroutines
    /\ PersistRename(g)
    /\ Unlock(Handle(g))
    /\ Return(g, "update", OK, NoOps)

\* persist fails; deferred unlock; return the error
UpdateFinishFail(g) ==
    /\ Ready
    /\ pc[g] = "persist"
    /\ UNCHANGED staged
    /\ g \in Goroutines
    /\ PersistAbort(g)
    /\ Unlock(Handle(g))
    /\ Return(g, "update", ErrPersist, NoOps)

\* a status that reports whatever the load returned
TransactionStatus_Raw(l) == l.ops

\* handleGetTransaction: the transactionStatus it encodes, given the (ops, err)
\* of the load; an absent file is reported as an empty Prepare record
TransactionStatus(l) ==
    IF l.err = ErrNotExist
    THEN [state |-> StatePrepare, install |-> Some(<<>>),
          remove |-> Some(<<>>), err |-> None]
    ELSE l.ops

\* handleGetTransaction: the status code, given the error of the load
GetStatus(err) == IF err \in {OK, ErrNotExist} THEN 200 ELSE 500

\* handleGetTransaction: the unlocked read store.Operations()
GetTransaction(g) ==
    /\ pc[g] = "new"
    /\ UNCHANGED staged
    /\ MayArrive(g)
    /\ Return(g, "get", LoadOperations(file).err,
              TransactionStatus(LoadOperations(file)))
    /\ UNCHANGED <<file, tmp, flockHolder, locked>>

\* an emptiness test that only looks at the install list
PlanIsEmpty_InstallOnly(ops) == Len(Items(ops.install)) = 0

\* handleCommitTransaction: is there nothing to commit?
PlanIsEmpty(ops) ==
    Len(Items(ops.install)) = 0 /\ Len(Items(ops.remove)) = 0

\* handleCommitTransaction: what the handler answers with, given the (ops, err)
\* of its load and whether systemd-run accepts the launch it may request
CommitOutcome(l, accepted) ==
    IF l.err = ErrNotExist THEN ErrNoPlan
    ELSE IF l.err # OK THEN l.err
    ELSE IF l.ops.state # StatePrepare THEN ErrNotPrepare
    ELSE IF PlanIsEmpty(l.ops) THEN NothingToDo
    ELSE IF accepted THEN OK
    ELSE ErrLaunch

\* handleCommitTransaction: did the handler run systemd-run?
Launches(outcome) == outcome \in {OK, ErrLaunch}

\* handleCommitTransaction: the status code
CommitStatus(outcome) ==
    IF outcome = OK THEN 202
    ELSE IF outcome = NothingToDo THEN 200
    ELSE IF outcome = ErrNoPlan THEN 400
    ELSE IF outcome = ErrNotPrepare THEN 409
    ELSE 500

\* systemd-run: the supervisor accepts the launch; it refuses a unit whose
\* name is in use
Accepts(accepted) == accepted /\ pc[Unit] = "none"

\* handleCommitTransaction: one unlocked read, then the answer; the handler
\* waits for the systemd-run command, never for the record to change. An
\* accepted launch starts the unit.
CommitTransaction(g, accepted) ==
    /\ pc[g] = "new"
    /\ UNCHANGED staged
    /\ MayArrive(g)
    /\ pc' = [pc EXCEPT
                ![g] = "done",
                ![Unit] = IF CommitOutcome(LoadOperations(file), Accepts(accepted)) = OK
                          THEN "started" ELSE @]
    /\ call' = [call EXCEPT ![g] = Idle]
    /\ ret' = [NoRet EXCEPT
                 !.actor = g,
                 !.op = "commit",
                 !.err = CommitOutcome(LoadOperations(file), Accepts(accepted)),
                 !.cause = CommitOutcome(LoadOperations(file), Accepts(accepted))]
    /\ UNCHANGED <<file, tmp, flockHolder, locked>>

----------------------------------------------------------------------------
\* ExecutorStore.

\* the executor process is between two calls
NewCall(x) == pc[x] = "idle" /\ Ready

\* store.lock: one tryLock of the polling loop
LockPoll(x) ==
    /\ IF TryLockOk(Handle(x))
       THEN /\ TryLockTake(Handle(x))
            /\ Return(x, "lock", OK, NoOps)
       ELSE /\ pc' = [pc EXCEPT ![x] = "locking"]
            /\ call' = [call EXCEPT ![x] = [Idle EXCEPT !.op = "lock"]]
            /\ UNCHANGED <<flockHolder, locked>>
            /\ ret' = NoRet
    /\ UNCHANGED <<file, tmp>>

\* a lock that only looks at the context while it waits
CtxDone_Late(cancelled) == FALSE

\* store.lock: the check of ctx.Done() before the first tryLock
CtxDone(cancelled) == cancelled

\* Lock(ctx) is called; cancelled: ctx is already cancelled
Lock(x, cancelled) ==
    /\ NewCall(x)
    /\ UNCHANGED staged
    /\ IF CtxDone(cancelled)
       THEN /\ Return(x, "lock", ErrCancelled, NoOps)
            /\ UNCHANGED <<file, tmp, flockHolder, locked>>
       ELSE LockPoll(x)

\* the ticker fires while store.lock waits
LockRetry(x) ==
    /\ Ready
    /\ pc[x] = "locking"
    /\ UNCHANGED staged
    /\ TryLockOk(Handle(x))
    /\ LockPoll(x)

\* ctx.Done() fires while store.lock waits
LockCancelled(x) ==
    /\ Ready
    /\ pc[x] = "locking"
    /\ UNCHANGED staged
    /\ Return(x, "lock", ErrCancelled, NoOps)
    /\ UNCHANGED <<file, tmp, flockHolder, locked>>

ExecUnlock(x) ==
    /\ NewCall(x)
    /\ UNCHANGED staged
    /\ Unlock(Handle(x))
    /\ Return(x, "unlock", OK, NoOps)
    /\ UNCHANGED <<file, tmp>>

\* a loop that makes one attempt more
RetryLoop_OneMore(i) == maxRetries + 1

\* withRetry's loop when every remaining attempt fails without touching the
\* state directory: the number of attempts made when it gives up
RECURSIVE RetryLoop(_)
RetryLoop(i) == IF i < maxRetries THEN RetryLoop(i + 1) ELSE i

\* one failed attempt of withRetry's action that read or wrote the state
\* directory: loop, or give up after maxRetries
AttemptFailed(x, c, err) ==
    IF c.attempt + 1 >= maxRetries
    THEN ReturnRetried(x, c.op, ErrRetries, err, NoOps, c.attempt + 1)
    ELSE /\ call' = [call EXCEPT ![x] = [c EXCEPT !.attempt = @ + 1, !.ops = NoOps]]
         /\ pc' = [pc EXCEPT ![x] = "retry"]
         /\ ret' = NoRet

\* an updateState that persists the new state without the plan
UpdateStateOps_DropPlan(f, newState, errInfo) ==
    [NoOps EXCEPT !.state = newState, !.err = errInfo]

\* an updateState that records the error but leaves the state as loaded
UpdateStateOps_KeepState(f, newState, errInfo) ==
    [LoadOperations(f).ops EXCEPT !.err = errInfo]

\* an updateState that forgets the state
UpdateStateOps_NoState(f, newState, errInfo) ==
    [LoadOperations(f).ops EXCEPT !.state = "", !.err = errInfo]

\* the record updateState persists
UpdateStateOps(f, newState, errInfo) ==
    [LoadOperations(f).ops EXCEPT !.state = newState, !.err = errInfo]

\* a Locked() that always answers yes
HoldsLock_Always(h) == TRUE

\* a Locked() that is content when no other handle holds the lock
HoldsLock_IfFree(h) == flockHolder \in {NoHandle, h}

\* flock.Flock.Locked on handle h, as updateState asks it
HoldsLock(h) == locked[h]

\* one attempt of withRetry(updateState(newState, errInfo)), up to the start of
\* persist; c holds the call's arguments and the attempts made so far
UpdateState(x, c) ==
    /\ IF ~HoldsLock(Handle(x))
       THEN /\ ReturnRetried(x, c.op, ErrRetries, ErrNotLocked, NoOps,
                             RetryLoop(c.attempt))
            /\ UNCHANGED <<file, tmp>>
       ELSE IF LoadOperations(file).err # OK
       THEN /\ AttemptFailed(x, c, LoadOperations(file).err)
            /\ UNCHANGED <<file, tmp>>
       ELSE /\ PersistBegin(x, UpdateStateOps(file, c.newState, c.errInfo))
            /\ call' = [call EXCEPT ![x] =
                           [c EXCEPT !.ops = UpdateStateOps(file, c.newState, c.errInfo)]]
            /\ pc' = [pc EXCEPT ![x] = "persist"]
            /\ ret' = NoRet
    /\ UNCHANGED <<flockHolder, locked>>

\* enter withRetry(updateState(newState, errInfo)): the first attempt
Transition(x, op, newState, errInfo) ==
    UpdateState(x, [Idle EXCEPT !.op = op, !.newState = newState, !.errInfo = errInfo])

\* a state check that only refuses a finished record
StartAllowed_NotDone(ops) == ops.state # StateDone

\* may Start move the loaded record to Run?
StartAllowed(ops) == ops.state = StatePrepare

Start(x) ==
    /\ NewCall(x)
    /\ UNCHANGED staged
    /\ IF LoadOperations(file).err # OK
       THEN /\ Return(x, "start", LoadOperations(file).err, NoOps)
            /\ UNCHANGED <<file, tmp, flockHolder, locked>>
       ELSE IF ~StartAllowed(LoadOperations(file).ops)
       THEN /\ Return(x, "start", ErrConflict, LoadOperations(file).ops)
            /\ UNCHANGED <<file, tmp, flockHolder, locked>>
       ELSE Transition(x, "start", StateRun, None)

Done(x) ==
    /\ NewCall(x)
    /\ UNCHANGED staged
    /\ Transition(x, "done", StateDone, None)

\* a RolledBack that records the cause as given
RolledBackCause_AsGiven(errInfo) == errInfo

\* the error RolledBack records: a nil cause is replaced
RolledBackCause(errInfo) ==
    IF errInfo = None THEN Some(RolledBackNoError) ELSE errInfo

RolledBack(x, errInfo) ==
    /\ NewCall(x)
    /\ UNCHANGED staged
    /\ Transition(x, "rolledback", StatePrepare, RolledBackCause(errInfo))

\* the state Broken persists
BrokenState == StateDone

\* a Broken that takes any cause
BrokenRejects_Nothing(errInfo) == FALSE

\* does Broken reject the cause?
BrokenRejects(errInfo) == errInfo = None

Broken(x, errInfo) ==
    /\ NewCall(x)
    /\ UNCHANGED staged
    /\ IF BrokenRejects(errInfo)
       THEN /\ Return(x, "broken", ErrNilCause, NoOps)
            /\ UNCHANGED <<file, tmp, flockHolder, locked>>
       ELSE Transition(x, "broken", BrokenState, errInfo)

\* What Start returns to Run. Run opens a store of its own and never calls
\* Lock, so the handle updateState asks is not locked: each of withRetry's
\* attempts fails before it reads the record, and the part of Run that
\* follows a successful Start (the work, then Done) is never reached.
RunStart(f) ==
    IF LoadOperations(f).err # OK
    THEN [err |-> LoadOperations(f).err, ops |-> NoOps, attempts |-> 0]
    ELSE IF ~StartAllowed(LoadOperations(f).ops)
    THEN [err |-> ErrConflict, ops |-> LoadOperations(f).ops, attempts |-> 0]
    ELSE [err |-> ErrNotLocked, ops |-> NoOps, attempts |-> RetryLoop(0)]

\* a driver that hands the error of Start to its caller
RunExit_Propagate(startErr) == startErr

\* what Run returns when Start has returned the error startErr: nil
RunExit(startErr) == OK

\* the executor driver, run in the unit that a commit started (groom
\* --execute); cause is the error Start returned, ops the record it returned.
\* The unit is collected when the process has exited.
Run ==
    /\ Ready
    /\ pc[Unit] = "started"
    /\ pc' = [pc EXCEPT ![Unit] = "none"]
    /\ ret' = [actor |-> Unit, op |-> "run",
               err |-> RunExit(RunStart(file).err),
               cause |-> RunStart(file).err,
               ops |-> RunStart(file).ops,
               attempts |-> RunStart(file).attempts]
    /\ UNCHANGED <<file, tmp, flockHolder, locked, call, staged>>

\* The executor process terminates abruptly while it is in a call or holds
\* the lock: the operating system closes its descriptors, which releases the
\* flock; operations.json is left as it is. Deferred calls do not run, so a
\* temporary file it was writing stays on disk; no process opens it again
\* (os.CreateTemp picks a new name), and tmp, the files that a persist in
\* progress is writing, no longer holds it. The next process starts with a
\* new store.
Crash(x) ==
    /\ Ready
    /\ pc[x] # "idle" \/ locked[Handle(x)]
    /\ Unlock(Handle(x))
    /\ pc' = [pc EXCEPT ![x] = "idle"]
    /\ call' = [call EXCEPT ![x] = Idle]
    /\ ret' = [NoRet EXCEPT !.actor = x, !.op = "crash"]
    /\ tmp' = [tmp EXCEPT ![x] = NoFile]
    /\ UNCHANGED <<file, staged>>

\* withRetry's next attempt, after retryDelay
Retry(x) ==
    /\ Ready
    /\ pc[x] = "retry"
    /\ UNCHANGED staged
    /\ UpdateState(x, call[x])

\* persist completes: updateState returns (ops, nil), withRetry returns nil;
\* Start and Broken hand the record to their caller
UpdateStateFinish(x) ==
    /\ Ready
    /\ pc[x] = "persist"
    /\ UNCHANGED staged
    /\ x \in Executors
    /\ PersistRename(x)
    /\ ReturnRetried(x, call[x].op, OK, OK,
                     IF call[x].op \in {"start", "broken"} THEN call[x].ops ELSE NoOps,
                     call[x].attempt + 1)
    /\ UNCHANGED <<flockHolder, locked>>

\* persist fails: the attempt failed
UpdateStateFinishFail(x) ==
    /\ Ready
    /\ pc[x] = "persist"
    /\ call[x].attempt < MaxFailures
    /\ UNCHANGED staged
    /\ x \in Executors
    /\ PersistAbort(x)
    /\ AttemptFailed(x, call[x], ErrPersist)
    /\ UNCHANGED <<flockHolder, locked>>

\* the caller takes the value its call returned
ResultTaken ==
    /\ ~Ready
    /\ ret' = NoRet
    /\ UNCHANGED <<file, tmp, flockHolder, locked, pc, call, staged>>

----------------------------------------------------------------------------
Next ==
    \/ \E g \in Goroutines, p \in Paths : UpdateTryLock(g, "install", p)
    \/ \E g \in Goroutines, n \in Installed : StageRemove(g, n)
    \/ \E g \in Goroutines, o \in Orders : StagePurgeAll(g, o)
    \/ \E g \in Goroutines : UpdateTryLock(g, "clear", "")
    \/ \E g \in Goroutines : UpdateLoad(g)
    \/ \E g \in Goroutines : UpdateFinish(g)
    \/ \E g \in Goroutines : UpdateFinishFail(g)
    \/ \E g \in Goroutines : GetTransaction(g)
    \/ \E g \in Goroutines, accepted \in BOOLEAN : CommitTransaction(g, accepted)
    \/ \E x \in Executors, cancelled \in BOOLEAN : Lock(x, cancelled)
    \/ \E x \in Executors : LockRetry(x)
    \/ \E x \in Executors : LockCancelled(x)
    \/ \E x \in Executors : ExecUnlock(x)
    \/ \E x \in Executors : Start(x)
    \/ \E x \in Executors : Done(x)
    \/ \E x \in Executors, c \in Causes : RolledBack(x, c)
    \/ \E x \in Executors, c \in Causes : Broken(x, c)
    \/ Run
    \/ \E x \in Executors : Crash(x)
    \/ \E x \in Executors : Retry(x)
    \/ \E x \in Executors : UpdateStateFinish(x)
    \/ \E x \in Executors : UpdateStateFinishFail(x)
    \/ ResultTaken

Spec == Init /\ [][Next]_vars

\* an attempt of withRetry's action ends (the I/O of updateState completes
\* or fails), the sleep between two attempts ends, and a returned value
\* reaches its caller
FairSpec ==
    /\ Spec
    /\ \A x \in Executors :
         WF_vars(Retry(x) \/ UpdateStateFinish(x) \/ UpdateStateFinishFail(x))
    /\ WF_vars(ResultTaken)

----------------------------------------------------------------------------
\* DELETE /installed/ on an installed directory that holds two packages
\* beside groom itself, on a state directory that holds no plan or a plan
\* with one staged removal.

PurgeNames == {"app", "lib"}

PurgeInstalled == PurgeNames \cup {SelfPackageName}

\* what stagePurgeAll may read from that directory: the packages of the files
\* whose package name can be read, in the order listInstalledOp lists them
PurgeOrders ==
    {o \in UNION {[1..n -> PurgeInstalled] : n \in 0..Cardinality(PurgeInstalled)} :
        \A i, j \in 1..Len(o) : o[i] = o[j] => i = j}

\* the plans found in the state directory
PurgePlans ==
    {NoFile} \cup
    {Marshal([NoOps EXCEPT !.state = StatePrepare, !.remove = Some(r)]) :
        r \in {<<>>} \cup {<<n>> : n \in PurgeNames}}

PurgeInit ==
    /\ file \in PurgePlans
    /\ tmp = [a \in Actors |-> NoFile]
    /\ flockHolder = NoHandle
    /\ locked = [h \in Handles |-> FALSE]
    /\ pc = [a \in Actors \cup {Unit} |->
                IF a \in Goroutines THEN "new"
                ELSE IF a = Unit THEN "none"
                ELSE "idle"]
    /\ call = [a \in Actors |-> Idle]
    /\ ret = NoRet
    /\ staged = [paths |-> 0, names |-> 0]

PurgeNext ==
    \/ \E g \in Goroutines, o \in PurgeOrders : StagePurgeAll(g, o)
    \/ \E g \in Goroutines : UpdateLoad(g)
    \/ \E g \in Goroutines : UpdateFinish(g)
    \/ \E g \in Goroutines : UpdateFinishFail(g)
    \/ \E g \in Goroutines : GetTransaction(g)
    \/ ResultTaken

PurgeSpec == PurgeInit /\ [][PurgeNext]_vars

----------------------------------------------------------------------------
\* ConsumerStore.Update called with a callback that stages a file or with one
\* that returns an error, on a state directory that holds no file, an
\* unparseable file, a plan, or the record of a running transaction, beside
\* an executor process that takes and releases the lock.

UpdatePlans ==
    {NoFile, CorruptFile} \cup
    {Marshal([NoOps EXCEPT !.state = s, !.install = Some(<<AllPaths[1]>>)]) :
        s \in {StatePrepare, StateRun}}

UpdateInit ==
    /\ file \in UpdatePlans
    /\ tmp = [a \in Actors |-> NoFile]
    /\ flockHolder = NoHandle
    /\ locked = [h \in Handles |-> FALSE]
    /\ pc = [a \in Actors \cup {Unit} |->
                IF a \in Goroutines THEN "new"
                ELSE IF a = Unit THEN "none"
                ELSE "idle"]
    /\ call = [a \in Actors |-> Idle]
    /\ ret = NoRet
    /\ staged = [paths |-> 1, names |-> 0]

UpdateNext ==
    \/ \E g \in Goroutines, p \in Paths : UpdateTryLock(g, "install", p)
    \/ \E g \in Goroutines : UpdateTryLock(g, "fail", "")
    \/ \E g \in Goroutines : UpdateLoad(g)
    \/ \E g \in Goroutines : UpdateFinish(g)
    \/ \E g \in Goroutines : UpdateFinishFail(g)
    \/ \E x \in Executors, cancelled \in BOOLEAN : Lock(x, cancelled)
    \/ \E x \in Executors : LockRetry(x)
    \/ \E x \in Executors : LockCancelled(x)
    \/ \E x \in Executors : ExecUnlock(x)
    \/ ResultTaken

UpdateSpec == UpdateInit /\ [][UpdateNext]_vars

----------------------------------------------------------------------------

\* POST /transaction on a state directory that holds a plan with one staged
\* file, beside staging and clear requests and an executor process that takes
\* the lock and starts the transaction.

CommitPlans ==
    {Marshal([NoOps EXCEPT !.state = StatePrepare, !.install = Some(<<AllPaths[1]>>)])}

CommitInit ==
    /\ file \in CommitPlans
    /\ tmp = [a \in Actors |-> NoFile]
    /\ flockHolder = NoHandle
    /\ locked = [h \in Handles |-> FALSE]
    /\ pc = [a \in Actors \cup {Unit} |->
                IF a \in Goroutines THEN "new"
                ELSE IF a = Unit THEN "none"
                ELSE "idle"]
    /\ call = [a \in Actors |-> Idle]
    /\ ret = NoRet
    /\ staged = [paths |-> 1, names |-> 0]

CommitNext ==
    \/ \E g \in Goroutines, accepted \in BOOLEAN : CommitTransaction(g, accepted)
    \/ \E g \in Goroutines, p \in Paths : UpdateTryLock(g, "install", p)
    \/ \E g \in Goroutines, n \in Installed : StageRemove(g, n)
    \/ \E g \in Goroutines : UpdateTryLock(g, "clear", "")
    \/ \E g \in Goroutines : UpdateLoad(g)
    \/ \E g \in Goroutines : UpdateFinish(g)
    \/ \E g \in Goroutines : UpdateFinishFail(g)
    \/ \E x \in Executors, cancelled \in BOOLEAN : Lock(x, cancelled)
    \/ \E x \in Executors : LockRetry(x)
    \/ \E x \in Executors : LockCancelled(x)
    \/ \E x \in Executors : ExecUnlock(x)
    \/ \E x \in Executors : Start(x)
    \/ \E x \in Executors : Retry(x)
    \/ \E x \in Executors : UpdateStateFinish(x)
    \/ \E x \in Executors : UpdateStateFinishFail(x)
    \/ Run
    \/ ResultTaken

CommitSpec == CommitInit /\ [][CommitNext]_vars

----------------------------------------------------------------------------

\* Steps, as seen from outside.

\* this step is the first step (tryLock) of an Update called by g
UpdateCalled(g) ==
    /\ pc[g] = "new"
    /\ \/ pc'[g] = "update"
       \/ ret'.actor = g /\ ret'.op = "update"

\* this step is a return of actor a from op with error err (every step sets
\* ret: a step that returns nothing sets it to NoRet)
Returned(a, op, err) ==
    /\ ret'.actor = a
    /\ ret'.op = op
    /\ ret'.err = err

\* this step is the rename by which actor a replaces operations.json
Renames(a) ==
    /\ pc[a] = "persist"
    /\ pc'[a] # "persist"
    /\ ret'.actor = a
    /\ ret'.err = OK

\* the record is absent or in Prepare
AbsentOrPrepare(f) ==
    \/ ~f.exists
    \/ f.complete /\ f.state = StatePrepare

----------------------------------------------------------------------------
\* C1: an Update called while an executor's handle owns the lock returns
\* ErrExecutionInProgress in its very first step (no waiting), never runs its
\* modify callback and leaves operations.json and the state directory as they
\* were; an Update called while nobody owns the lock takes it, and if the
\* record it then loads is absent or in Prepare it applies the callback and,
\* its persist completing, returns nil with the modified record on disk.
C1_RefusedWhileExecutorHolds ==
    [][\A g \in Goroutines :
          /\ (UpdateCalled(g) /\ flockHolder \in Executors)
                => /\ Returned(g, "update", ErrInProgress)
                   /\ pc'[g] = "done"
                   /\ call'[g] = Idle
                   /\ file' = file
                   /\ tmp' = tmp
                   /\ flockHolder' = flockHolder
          /\ (UpdateCalled(g) /\ flockHolder = NoHandle)
                => /\ pc'[g] = "update"
                   /\ flockHolder' = Handle(g)
          /\ (pc[g] = "update" /\ pc'[g] # "update" /\ AbsentOrPrepare(file))
                => /\ pc'[g] = "persist"
                   /\ call'[g].ops = Callback(call[g], UpdateLoaded(file))
          /\ Renames(g)
                => /\ Returned(g, "update", OK)
                   /\ file' = Marshal(call[g].ops)
      ]_vars

\* an Update was just refused at its tryLock: an executor owns the lock and
\* the record is absent, so the state check cannot have been the one to refuse
C1_Witness ==
    /\ ret.actor \in Goroutines
    /\ ret.op = "update"
    /\ ret.err = ErrInProgress
    /\ flockHolder \in Executors
    /\ file = NoFile

\* C2: when the record Update loads is in Run or Done (the only states other
\* than Prepare this code persists; Broken() persists Done), Update returns
\* ErrExecutionInProgress without running the callback and without writing.
C2_RefusedAfterStart ==
    [][\A g \in Goroutines :
          (/\ pc[g] = "update"
           /\ pc'[g] # "update"
           /\ file.exists /\ file.complete
           /\ file.state \in {StateRun, StateDone})
             => /\ Returned(g, "update", ErrInProgress)
                /\ pc'[g] = "done"
                /\ call'[g] = Idle
                /\ file' = file
                /\ tmp' = tmp
      ]_vars

\* an Update that owned the lock was just refused by the state check, the
\* record being Done
C2_Witness ==
    /\ ret.actor \in Goroutines
    /\ ret.op = "update"
    /\ ret.err = ErrInProgress
    /\ flockHolder = NoHandle
    /\ file.exists /\ file.complete
    /\ file.state = StateDone

----------------------------------------------------------------------------
\* C3: concurrent Updates are serialized: the record an Update writes is its
\* callback applied to the record that is on disk when it writes, so no
\* successful Update erases what another one persisted.
C3_Serialized ==
    [][\A g \in Goroutines :
          Renames(g)
            => file' = Marshal(Callback(call[g], UpdateLoaded(file)))
      ]_vars

\* C4: an actor replaces operations.json only while its handle owns the
\* lock and no other actor is inside a locked section of its own.
C4_WritesHoldLock ==
    [][\A a \in Actors :
          Renames(a)
            => /\ flockHolder = Handle(a)
               /\ \A b \in Actors \ {a} :
                      /\ pc[b] \notin {"update", "persist", "retry"}
                      /\ b \in Executors => ~locked[Handle(b)]
      ]_vars

----------------------------------------------------------------------------
\* C5: operations.json only ever changes by a rename that puts a whole
\* persisted record in place (the partial bytes live in the writer's temp
\* file), so an unlocked read (GET /transaction, Start's pre-check) never
\* returns a torn record: it returns exactly the record of the last completed
\* persist, whatever persists are under way, and fails to parse only a file
\* that was unreadable before the first persist.
C5_ReadsSeeWholeRecords ==
    [][/\ file' # file
          => \E a \in Actors :
                /\ Renames(a)
                /\ file' = Marshal(call[a].ops)
                /\ file'.complete
       /\ \A g \in Goroutines :
             (pc[g] = "new" /\ ret'.actor = g /\ ret'.op = "get")
               => /\ ret'.err \in {OK, ErrNotExist, ErrCorrupt}
                  /\ ret'.err = ErrCorrupt => file = CorruptFile
                  /\ ret'.err = OK => Marshal(ret'.ops) = file
                  /\ ret'.err = ErrNotExist => file = NoFile
       /\ \A x \in Executors :
             (pc[x] = "idle" /\ Returned(x, "start", ErrConflict))
               => Marshal(ret'.ops) = file
      ]_vars

\* a GET /transaction just read a record while a persist was half way
C5_Witness ==
    /\ ret.op = "get"
    /\ ret.err = OK
    /\ Marshal(ret.ops) = file
    /\ \E a \in Actors : tmp[a] # NoFile /\ tmp[a] # file

\* C6: the record a load returns after a persist has the state, the install
\* and remove sequences and the error message of the persisted value; lists
\* that were nil or empty (omitted from the JSON) come back empty, not nil.
C6_RoundTrip ==
    [][\A a \in Actors :
          Renames(a)
            => /\ LoadOperations(file').err = OK
               /\ LoadOperations(file').ops.state = call[a].ops.state
               /\ LoadOperations(file').ops.install = Some(Items(call[a].ops.install))
               /\ LoadOperations(file').ops.remove = Some(Items(call[a].ops.remove))
               /\ Msg(LoadOperations(file').ops.err) = Msg(call[a].ops.err)
               /\ (call[a].ops.err = None) <=> (LoadOperations(file').ops.err = None)
      ]_vars

\* a record persisted with a nil remove list and an error was just loaded:
\* the list came back empty, the message came back
C6_Witness ==
    /\ ret.op = "get"
    /\ ret.err = OK
    /\ ~file.hasRemove
    /\ ret.ops.remove = Some(<<>>)
    /\ Len(Items(ret.ops.install)) > 0
    /\ Msg(ret.ops.err) = "apt failed"

----------------------------------------------------------------------------
\* is sequence s an initial part of sequence t?
IsPrefix(s, t) ==
    /\ Len(s) <= Len(t)
    /\ \A i \in 1..Len(s) : s[i] = t[i]

NoDuplicates(s) ==
    \A i, j \in 1..Len(s) : s[i] = s[j] => i = j

\* this step is the load-and-modify step of a staging Update of g
Stages(g) ==
    /\ pc[g] = "update"
    /\ pc'[g] = "persist"
    /\ call[g].op \in {"install", "remove"}

\* the list of f the staging call c adds to
StagedList(c, f) == IF c.op = "install" THEN f.install ELSE f.remove

\* C7: staging an entry the loaded plan already contains leaves the plan
\* unchanged, so the record the Update persists is the one it loaded; and
\* applying the same staging callback a second time to any plan changes
\* nothing more.
C7_StagingIdempotent ==
    [][\A g \in Goroutines :
          Stages(g)
            => /\ Contains(StagedList(call[g], file), call[g].arg)
                    => /\ call'[g].ops = UpdateLoaded(file)
                       /\ Marshal(call'[g].ops) = file
               /\ Modify(call[g].op, call[g].arg, call'[g].ops) = call'[g].ops
      ]_vars

\* an Update is persisting the outcome of staging a path the plan on disk
\* already holds: the record it is about to write is the one on disk
C7_Witness ==
    \E g \in Goroutines :
        /\ pc[g] = "persist"
        /\ call[g].op = "install"
        /\ Contains(file.install, call[g].arg)
        /\ Marshal(call[g].ops) = file
        /\ ret.op = "update" /\ ret.err = OK

\* C8: a successful staging Update never drops or reorders the entries the
\* persisted lists already hold: the lists on disk before its write are
\* initial parts of the lists after it, and the lists stay free of duplicates.
C8_StagingKeepsEntries ==
    [][\A g \in Goroutines :
          (Renames(g) /\ call[g].op \in {"install", "remove"})
            => /\ IsPrefix(file.install, file'.install)
               /\ IsPrefix(file.remove, file'.remove)
               /\ NoDuplicates(file'.install)
               /\ NoDuplicates(file'.remove)
      ]_vars

----------------------------------------------------------------------------
\* this step is executor x calling op
Calls(x, op) ==
    /\ pc[x] = "idle"
    /\ \/ ret'.actor = x /\ ret'.op = op
       \/ pc'[x] \in {"persist", "retry"} /\ call'[x].op = op

\* the transitions of the life-cycle, and the call each belongs to
LifeCycle(from, op, to) ==
    \/ from = StatePrepare /\ op = "start" /\ to = StateRun
    \/ from = StateRun /\ op = "done" /\ to = StateDone
    \/ from = StateRun /\ op = "rolledback" /\ to = StatePrepare
    \/ from = StateRun /\ op = "broken" /\ to = "Broken"

\* C9: every write that changes the state field of an existing record is a
\* transition of the life-cycle made by the call it belongs to: Prepare->Run
\* by Start, Run->Done by Done, Run->Prepare by RolledBack, Run->Broken by
\* Broken; so Done, RolledBack and Broken change the state only of a record
\* in Run, and a finished record is never moved to Run.
C9_LifeCycle ==
    [][\A a \in Actors :
          (Renames(a) /\ file.exists /\ file'.state # file.state)
            => LifeCycle(file.state, call[a].op, file'.state)
      ]_vars

\* C10: with the executor's handle locked and the record in Prepare, Start
\* goes on to persist the record with state Run and no error, and when that
\* persist completes it returns nil and that record, which is also what a
\* load then reads; Done, the record being loadable, goes on to persist
\* state Done with no error, and when that persist completes it returns nil
\* and a load reads Done with no error.
C10_SuccessPath ==
    [][\A x \in Executors :
          /\ (/\ Calls(x, "start")
               /\ locked[Handle(x)]
               /\ file.exists /\ file.complete /\ file.state = StatePrepare)
                => /\ pc'[x] = "persist"
                   /\ call'[x].ops =
                         [LoadOperations(file).ops EXCEPT !.state = StateRun, !.err = None]
          /\ (Renames(x) /\ call[x].op = "start")
                => /\ Returned(x, "start", OK)
                   /\ ret'.ops = call[x].ops
                   /\ LoadOperations(file') = [err |-> OK, ops |-> ret'.ops]
                   /\ file'.state = StateRun
                   /\ file'.error = ""
          /\ (/\ Calls(x, "done")
               /\ locked[Handle(x)]
               /\ file.exists /\ file.complete)
                => /\ pc'[x] = "persist"
                   /\ call'[x].ops =
                         [LoadOperations(file).ops EXCEPT !.state = StateDone, !.err = None]
          /\ (Renames(x) /\ call[x].op = "done")
                => /\ Returned(x, "done", OK)
                   /\ LoadOperations(file').err = OK
                   /\ LoadOperations(file').ops.state = StateDone
                   /\ LoadOperations(file').ops.err = None
                   /\ file'.error = ""
      ]_vars

\* Done just returned nil to an executor that owns the lock, at its first
\* attempt, and the record on disk is Done, with its plan and no error
C10_Witness ==
    /\ ret.actor \in Executors
    /\ ret.op = "done"
    /\ ret.err = OK
    /\ ret.attempts = 1
    /\ locked[Handle(ret.actor)]
    /\ file.state = StateDone
    /\ file.error = ""
    /\ Len(file.install) > 0

----------------------------------------------------------------------------
\* C11: Start on a loadable record whose state is not Prepare returns, in the
\* same step, the record it loaded together with the state-conflict error;
\* it makes no attempt under withRetry, creates no temp file and leaves
\* operations.json as it was, with or without the lock.
C11_StartConflict ==
    [][\A x \in Executors :
          (/\ Calls(x, "start")
           /\ file.exists /\ file.complete
           /\ file.state # StatePrepare)
             => /\ Returned(x, "start", ErrConflict)
                /\ ret'.ops = LoadOperations(file).ops
                /\ ret'.attempts = 0
                /\ pc'[x] = "idle"
                /\ file' = file
                /\ tmp' = tmp
                /\ UNCHANGED <<flockHolder, locked>>
      ]_vars

\* Start was just refused on a running record and handed that record back
C11_Witness ==
    /\ ret.actor \in Executors
    /\ ret.op = "start"
    /\ ret.err = ErrConflict
    /\ ret.ops.state = StateRun
    /\ ret.attempts = 0
    /\ file.state = StateRun

\* C12: Done, RolledBack, Broken with a cause, and Start on a Prepare record,
\* called on a store whose handle is not locked, fail with an error whose
\* cause is updateState's not-holding-the-lock error, decided without looking
\* at the state directory: no temp file is created and operations.json is
\* unchanged.
C12_NotLocked ==
    [][\A x \in Executors :
          /\ (/\ \/ Calls(x, "done")
                 \/ Calls(x, "rolledback")
                 \/ Calls(x, "broken") /\ ret'.err # ErrNilCause
                 \/ Calls(x, "start") /\ file.exists /\ file.complete
                                      /\ file.state = StatePrepare
              /\ ~locked[Handle(x)])
                => /\ ret'.actor = x
                   /\ ret'.err # OK
                   /\ ret'.cause = ErrNotLocked
                   /\ pc'[x] = "idle"
                   /\ file' = file
                   /\ tmp' = tmp
          /\ (ret'.cause = ErrNotLocked /\ ret'.actor \in Executors)
                => ~locked[Handle(ret'.actor)]
      ]_vars

\* Done just failed for want of the lock, with a record on disk to protect
C12_Witness ==
    /\ ret.actor \in Executors
    /\ ret.op = "done"
    /\ ret.cause = ErrNotLocked
    /\ ret.err # OK
    /\ ~locked[Handle(ret.actor)]
    /\ file.exists
    /\ file.state = StatePrepare

----------------------------------------------------------------------------
\* C13: RolledBack(cause), called with the handle locked on a loadable
\* record, goes on to persist that record with state Prepare and the cause
\* as its error, a nil cause being replaced by the "RolledBack with no
\* error" message; when the persist completes, the file holds Prepare with
\* that non-empty message, and that is what a load, and so a status read,
\* returns.
C13_RolledBack ==
    [][\A x \in Executors :
          /\ \A c \in Causes :
               (/\ RolledBack(x, c)
                /\ locked[Handle(x)]
                /\ file.exists /\ file.complete)
                  => /\ pc'[x] = "persist"
                     /\ call'[x].ops.state = StatePrepare
                     /\ call'[x].ops.err =
                           (IF c = None THEN Some(RolledBackNoError) ELSE c)
                     /\ call'[x].ops.install = LoadOperations(file).ops.install
                     /\ call'[x].ops.remove = LoadOperations(file).ops.remove
          /\ (Renames(x) /\ call[x].op = "rolledback")
                => /\ Returned(x, "rolledback", OK)
                   /\ file' = Marshal(call[x].ops)
                   /\ file'.state = StatePrepare
                   /\ file'.error # ""
                   /\ file'.error = Msg(call[x].ops.err)
                   /\ LoadOperations(file').ops.state = StatePrepare
                   /\ LoadOperations(file').ops.err = call[x].ops.err
       /\ \A g \in Goroutines :
             (/\ pc[g] = "new" /\ ret'.actor = g /\ ret'.op = "get"
              /\ file.exists /\ file.state = StatePrepare /\ file.error # "")
                => /\ ret'.err = OK
                   /\ ret'.ops.state = StatePrepare
                   /\ Msg(ret'.ops.err) = file.error
      ]_vars

\* a status read just reported Prepare with the message that stands for a
\* nil rollback cause
C13_Witness ==
    /\ ret.actor \in Goroutines
    /\ ret.op = "get"
    /\ ret.err = OK
    /\ ret.ops.state = StatePrepare
    /\ Msg(ret.ops.err) = RolledBackNoError
    /\ file.error = RolledBackNoError

\* C14: Broken(cause) with a non-nil cause, completing its persist, leaves a
\* record in state Broken whose error message is the cause's.
C14_BrokenPersistsBroken ==
    [][\A x \in Executors :
          (Renames(x) /\ call[x].op = "broken")
            => /\ file'.state = "Broken"
               /\ file'.error = Msg(call[x].errInfo)
               /\ LoadOperations(file').ops.state = "Broken"
      ]_vars

\* C15: Broken(nil) returns its non-nil-error-required error at once and
\* changes nothing, whether or not the handle is locked: no attempt, no temp
\* file, operations.json and the lock as they were.
C15_BrokenNilRejected ==
    [][\A x \in Executors :
          Broken(x, None)
            => /\ Returned(x, "broken", ErrNilCause)
               /\ ret'.ops = NoOps
               /\ ret'.attempts = 0
               /\ pc'[x] = "idle"
               /\ file' = file
               /\ tmp' = tmp
               /\ UNCHANGED <<flockHolder, locked>>
      ]_vars

\* Broken(nil) was just rejected on a running record, under the lock
C15_Witness ==
    /\ ret.actor \in Executors
    /\ ret.op = "broken"
    /\ ret.err = ErrNilCause
    /\ locked[Handle(ret.actor)]
    /\ file.state = StateRun

----------------------------------------------------------------------------
\* C16: a persisted record in state Done carries no error.
C16_DoneHasNoError ==
    (file.exists /\ file.state = StateDone) => file.error = ""

\* C17: the state field of every persisted record is non-empty and is one of
\* Prepare, Run, Done, Broken (a file that was unreadable from the start was
\* never persisted).
C17_StateIsKnown ==
    /\ (file.exists /\ file # CorruptFile)
         => /\ file.state # ""
            /\ file.state \in {StatePrepare, StateRun, StateDone, "Broken"}
    /\ \A a \in Actors :
         tmp[a].exists
           => tmp[a].state \in {StatePrepare, StateRun, StateDone, "Broken"}

\* records have been persisted through both APIs: the consumer staged a
\* plan and the executor moved it to Run
C17_Witness ==
    /\ file.exists
    /\ file.state = StateRun
    /\ Len(file.install) > 0
    /\ Len(file.remove) > 0

----------------------------------------------------------------------------
\* the record of a cleared plan
EmptyPlan ==
    [state |-> StatePrepare, install |-> Some(<<>>), remove |-> Some(<<>>),
     err |-> None]

\* this step is the load-and-modify step of the Update of a DELETE /transaction
ClearLoads(g) ==
    /\ pc[g] = "update"
    /\ call[g].op = "clear"
    /\ pc'[g] # "update"

\* C18: DELETE /transaction, having taken the lock and loaded a record in
\* Prepare, goes on to persist (Prepare, empty install list, empty remove
\* list, no error); when that persist completes the handler answers 200 and
\* operations.json exists and holds exactly that record, which is what a GET
\* /transaction of it reports.
C18_ClearRewrites ==
    [][\A g \in Goroutines :
          /\ (ClearLoads(g) /\ file.exists /\ file.complete
                            /\ file.state = StatePrepare)
                => /\ pc'[g] = "persist"
                   /\ call'[g].ops = EmptyPlan
          /\ (Renames(g) /\ call[g].op = "clear")
                => /\ HttpStatus("clear", ret'.err) = 200
                   /\ file'.exists /\ file'.complete
                   /\ file' = Marshal(EmptyPlan)
                   /\ LoadOperations(file') = [err |-> OK, ops |-> EmptyPlan]
          /\ (/\ pc[g] = "new" /\ ret'.actor = g /\ ret'.op = "get"
              /\ file = Marshal(EmptyPlan))
                => /\ ret'.err = OK
                   /\ ret'.ops = EmptyPlan
      ]_vars

\* the second request, a DELETE /transaction that followed the staging of a
\* pool file, just returned nil: the record is there, empty and in Prepare
C18_Witness ==
    /\ ret.actor = Req(2)
    /\ ret.op = "update"
    /\ ret.err = OK
    /\ staged.paths > 0
    /\ \A g \in Goroutines : pc[g] # "persist"
    /\ file = Marshal(EmptyPlan)

\* C19: DELETE /transaction, having taken the lock and loaded a record in
\* Done, goes on to persist a record in Prepare with empty lists.
C19_ClearExitsDone ==
    [][\A g \in Goroutines :
          (ClearLoads(g) /\ file.exists /\ file.complete
                         /\ file.state = StateDone)
            => /\ pc'[g] = "persist"
               /\ call'[g].ops.state = StatePrepare
               /\ Items(call'[g].ops.install) = <<>>
               /\ Items(call'[g].ops.remove) = <<>>
      ]_vars

----------------------------------------------------------------------------
\* C20: self-protect. Whatever staging requests are served (removal of one
\* installed file, purge of all of them), no record that is written or being
\* written names the package of groom itself in its remove list; and the
\* request to remove an installed file that resolves to that package is
\* answered 403 in the step it arrives, without taking the lock and without
\* touching the record.
C20_SelfProtect ==
    [][/\ file'.exists => ~Contains(file'.remove, SelfPackageName)
       /\ \A a \in Actors :
            tmp'[a].exists => ~Contains(tmp'[a].remove, SelfPackageName)
       /\ \A g \in Goroutines :
            StageRemove(g, SelfPackageName)
              => /\ Returned(g, "stage", ErrForbidden)
                 /\ HttpStatus("remove", ret'.err) = 403
                 /\ file' = file
                 /\ tmp' = tmp
                 /\ flockHolder' = flockHolder
                 /\ locked' = locked]_vars

\* a purge that listed the package of groom itself has staged the other
\* package, and the removal of groom itself has then been refused
C20_Witness ==
    /\ ret.actor \in Goroutines
    /\ ret.op = "stage"
    /\ ret.err = ErrForbidden
    /\ file.exists
    /\ file.remove = <<AllNames[1]>>
    /\ file.install = <<>>

----------------------------------------------------------------------------
\* C21: POST /transaction answers in the step it arrives and changes neither
\* the record, the temporary files nor the lock. No state file: 400, no
\* launch. A record that is not in Prepare: 409, no launch. A Prepare record
\* with both lists empty: 200, no launch. A Prepare record with a plan: the
\* launch of the executor is requested, and the answer is 202 when the
\* supervisor accepts it.
C21_CommitOutcomes ==
    [][\A g \in Goroutines :
         (pc[g] = "new" /\ ret'.actor = g /\ ret'.op = "commit")
           => /\ pc'[g] = "done"
              /\ file' = file
              /\ tmp' = tmp
              /\ flockHolder' = flockHolder
              /\ locked' = locked
              /\ ~file.exists
                   => CommitStatus(ret'.err) = 400 /\ ~Launches(ret'.err)
              /\ (file.exists /\ file.complete /\ file.state # StatePrepare)
                   => CommitStatus(ret'.err) = 409 /\ ~Launches(ret'.err)
              /\ (/\ file.exists /\ file.complete /\ file.state = StatePrepare
                  /\ file.install = <<>> /\ file.remove = <<>>)
                   => CommitStatus(ret'.err) = 200 /\ ~Launches(ret'.err)
              /\ (/\ file.exists /\ file.complete /\ file.state = StatePrepare
                  /\ (file.install # <<>> \/ file.remove # <<>>))
                   => /\ Launches(ret'.err)
                      /\ CommitStatus(ret'.err) \in {202, 500}
                      /\ CommitStatus(ret'.err) = 202 <=> ret'.err = OK]_vars

\* a plan that only removes a package has been committed: 202
C21_Witness ==
    /\ ret.op = "commit"
    /\ ret.err = OK
    /\ file.state = StatePrepare
    /\ file.install = <<>>
    /\ file.remove # <<>>

----------------------------------------------------------------------------
\* C22: when the executor driver is launched on a Prepare record with a plan
\* while nobody holds the lock, it takes the lock, moves the record to Run
\* and then to Done: when it has returned the record is Done.
C22_RunReachesDone ==
    [][(/\ Run
        /\ file.exists
        /\ file.complete
        /\ file.state = StatePrepare
        /\ (file.install # <<>> \/ file.remove # <<>>)
        /\ flockHolder = NoHandle)
          => file'.state = StateDone]_vars

----------------------------------------------------------------------------
\* C23: lock(cancel). A call made with a token that has already fired returns
\* the Cancelled error without trying to acquire. A call reports acquisition
\* only in a step in which no other handle holds the lock, and the caller
\* holds it from then on; so while another process keeps the lock the call
\* can only wait or return Cancelled. A call that returns an error leaves
\* the lock, the record and the temporary files as they were: a caller that
\* did not hold the lock does not hold it.
C23_LockCancel ==
    [][\A x \in Executors :
         /\ Lock(x, TRUE)
              => /\ Returned(x, "lock", ErrCancelled)
                 /\ flockHolder' = flockHolder
                 /\ locked' = locked
         /\ (ret'.actor = x /\ ret'.op = "lock" /\ ret'.err = OK)
              => /\ flockHolder \in {NoHandle, Handle(x)}
                 /\ flockHolder' = Handle(x)
                 /\ locked'[Handle(x)]
         /\ (/\ pc[x] = "locking"
             /\ flockHolder \notin {NoHandle, Handle(x)}
             /\ ~Crash(x))
              => \/ pc'[x] = "locking"
                 \/ Returned(x, "lock", ErrCancelled)
         /\ (ret'.actor = x /\ ret'.op = "lock" /\ ret'.err # OK)
              => /\ ret'.err = ErrCancelled
                 /\ flockHolder' = flockHolder
                 /\ locked' = locked
                 /\ file' = file
                 /\ tmp' = tmp
                 /\ ~locked[Handle(x)] => ~locked'[Handle(x)]]_vars

\* the executor waited for a lock that a request of the daemon held, and its
\* token fired: it has returned Cancelled and the daemon still holds the lock
C23_Witness ==
    /\ ret.actor \in Executors
    /\ ret.op = "lock"
    /\ ret.err = ErrCancelled
    /\ flockHolder = "daemon"
    /\ \A x \in Executors : ~locked[Handle(x)]

----------------------------------------------------------------------------
\* what the callback of call c stages on an empty plan
StagedOnEmpty(c) ==
    [install |-> IF c.op = "install" THEN <<c.arg>> ELSE <<>>,
     remove  |-> IF c.op = "remove" THEN <<c.arg>>
                 ELSE IF c.op = "purge" THEN c.names ELSE <<>>]

\* C24: when there is no state file, an Update that holds the lock is not
\* refused: it goes on to persist; and if the file is still absent when its
\* persist completes, the file it creates is a whole record in state Prepare
\* with no error whose lists are exactly what the callback staged (empty
\* lists for a callback that stages nothing).
C24_UpdateCreates ==
    [][\A g \in Goroutines :
         /\ (pc[g] = "update" /\ pc'[g] # "update" /\ ~file.exists)
              => /\ pc'[g] = "persist"
                 /\ ~file'.exists
                 /\ call'[g].ops.state = StatePrepare
                 /\ call'[g].ops.err = None
         /\ (pc[g] = "persist" /\ Returned(g, "update", OK) /\ ~file.exists)
              => /\ file'.exists
                 /\ file'.complete
                 /\ file'.state = StatePrepare
                 /\ file'.error = ""
                 /\ file'.install = StagedOnEmpty(call[g]).install
                 /\ file'.remove = StagedOnEmpty(call[g]).remove
                 /\ LoadOperations(file').err = OK
                 /\ LoadOperations(file').ops.state = StatePrepare
                 /\ LoadOperations(file').ops.err = None]_vars

\* the first Update of a state directory was a clear: the file it created is
\* an empty Prepare record
C24_Witness ==
    /\ ret.op = "update"
    /\ ret.err = OK
    /\ file.exists
    /\ file.state = StatePrepare
    /\ file.install = <<>>
    /\ file.remove = <<>>
    /\ \A g \in Goroutines : g # ret.actor => pc[g] = "new"
    /\ \A x \in Executors : pc[x] = "idle" /\ ~locked[Handle(x)]

----------------------------------------------------------------------------
\* C25: a state file that is present but does not parse is never repaired.
\* As long as the file is in that condition no step changes it or writes a
\* temporary file; Update (staging and clear) returns the load error and the
\* handler answers 500; GET /transaction and POST /transaction answer 500;
\* Start returns the load error; Done, RolledBack and Broken return an error
\* (updateState fails in each attempt); the executor driver changes nothing.
C25_CorruptNeverRepaired ==
    [][(file.exists /\ ~file.complete)
         => /\ file' = file
            /\ tmp' = tmp
            /\ \A g \in Goroutines :
                 /\ Returned(g, "update", ret'.err) /\ pc[g] = "update"
                      => /\ ret'.err = ErrCorrupt
                         /\ HttpStatus(call[g].op, ret'.err) = 500
                 /\ Returned(g, "get", ret'.err) /\ pc[g] = "new"
                      => GetStatus(ret'.err) = 500
                 /\ Returned(g, "commit", ret'.err) /\ pc[g] = "new"
                      => CommitStatus(ret'.err) = 500 /\ ~Launches(ret'.err)
            /\ \A x \in Executors :
                 /\ Returned(x, "start", ret'.err) => ret'.err = ErrCorrupt
                 /\ (ret'.actor = x /\ ret'.op \in {"done", "rolledback", "broken"})
                      => ret'.err # OK
                 /\ (ret'.actor = x /\ ret'.op \in {"done", "rolledback", "broken"}
                       /\ locked[Handle(x)] /\ ret'.err # ErrNilCause)
                      => ret'.err = ErrRetries /\ ret'.cause = ErrCorrupt
            /\ Run => ret'.cause = ErrCorrupt]_vars

\* the file does not parse: a request has been answered, and then an Update
\* has returned the load error
C25_Witness ==
    /\ file.exists
    /\ ~file.complete
    /\ ret.actor \in Goroutines
    /\ ret.op = "update"
    /\ ret.err = ErrCorrupt
    /\ \E g \in Goroutines : pc[g] = "done" /\ g # ret.actor

----------------------------------------------------------------------------
\* C26: GET /transaction is read-only. It answers in the step it arrives and
\* changes neither operations.json, the temporary files nor the lock. When
\* the file is absent it reports state Prepare with empty lists and no error,
\* and the file is still absent; when the file holds a record it reports the
\* state, the lists and the error of that record.
C26_GetIsReadOnly ==
    [][\A g \in Goroutines :
         (pc[g] = "new" /\ ret'.actor = g /\ ret'.op = "get")
           => /\ pc'[g] = "done"
              /\ file' = file
              /\ tmp' = tmp
              /\ flockHolder' = flockHolder
              /\ locked' = locked
              /\ ~file.exists
                   => /\ GetStatus(ret'.err) = 200
                      /\ ret'.ops.state = StatePrepare
                      /\ ret'.ops.install = Some(<<>>)
                      /\ ret'.ops.remove = Some(<<>>)
                      /\ ret'.ops.err = None
                      /\ ~file'.exists
              /\ (file.exists /\ file.complete)
                   => /\ GetStatus(ret'.err) = 200
                      /\ ret'.ops.state = file.state
                      /\ ret'.ops.install = Some(file.install)
                      /\ ret'.ops.remove = Some(file.remove)
                      /\ Msg(ret'.ops.err) = file.error]_vars

\* the status of a state directory without operations.json has been read
\* while a request of the daemon held the lock
C26_Witness ==
    /\ ret.op = "get"
    /\ ~file.exists
    /\ ret.ops.state = StatePrepare
    /\ flockHolder = "daemon"

----------------------------------------------------------------------------
\* C27: a transition (Start, Done, RolledBack, Broken) attempted without the
\* lock fails in updateState, and the retry wrapper does not loop on that
\* failure: updateState has run exactly once when the call returns.
C27_NotLockedNotRetried ==
    [][\A x \in Executors :
         (/\ NewCall(x)
          /\ ~locked[Handle(x)]
          /\ ret'.actor = x
          /\ ret'.op \in {"start", "done", "rolledback", "broken"}
          /\ ret'.cause = ErrNotLocked)
           => ret'.attempts = 1]_vars

----------------------------------------------------------------------------
\* the last attempt of a transition fails in this step, in its load or in its
\* persist, with this error
LastAttemptFails(x, err) ==
    \/ pc[x] = "persist" /\ err = ErrPersist
    \/ pc[x] # "persist" /\ locked[Handle(x)] /\ err = LoadOperations(file).err
    \/ pc[x] # "persist" /\ ~locked[Handle(x)] /\ err = ErrNotLocked

\* C28: the retry wrapper. While a transition is between two attempts or in
\* an attempt, fewer than 5 attempts have failed, and a failed attempt adds
\* one to the count. A transition that returns success returns in the step
\* its attempt succeeds, after at most 5 attempts. A transition that returns
\* the exhausted error has made exactly 5 attempts, and the error wraps the
\* error of the last one. No return reports more than 5 attempts. A
\* transition that has started returns.
C28_BoundedRetry ==
    /\ [][\A x \in Executors :
            /\ pc'[x] \in {"retry", "persist"} => call'[x].attempt < maxRetries
            /\ pc'[x] = "retry" /\ pc[x] # "retry"
                 => call'[x].attempt = call[x].attempt + 1
            /\ pc[x] = "retry" /\ pc'[x] = "retry"
                 => call'[x].attempt \in {call[x].attempt, call[x].attempt + 1}
            /\ (ret'.actor = x /\ ret'.op \in {"start", "done", "rolledback", "broken"})
                 => /\ ret'.attempts <= maxRetries
                    /\ ret'.err = OK
                         => /\ pc[x] = "persist"
                            /\ ret'.attempts = call[x].attempt + 1
                    /\ ret'.err = ErrRetries
                         => /\ ret'.attempts = maxRetries
                            /\ LastAttemptFails(x, ret'.cause)]_vars
    /\ \A x \in Executors : pc[x] \in {"retry", "persist"} ~> pc[x] = "idle"

\* the executor, holding the lock, has given up on a transition after five
\* attempts whose load failed
C28_Witness ==
    /\ ret.actor \in Executors
    /\ ret.err = ErrRetries
    /\ ret.attempts = maxRetries
    /\ ret.cause = ErrNotExist
    /\ locked[Handle(ret.actor)]

----------------------------------------------------------------------------
\* C29: crash of the executor in Run. When the process that holds the lock
\* terminates abruptly with the record in Run, the lock is free for a new
\* process and the record is as it was. From there the record stays in Run:
\* the step that follows the crash leaves it in Run, a staging or clear
\* request that returns in it is answered 409, so is a commit, and a Start
\* is refused.
C29_StuckInRun ==
    [][/\ \A x \in Executors :
            (Crash(x) /\ locked[Handle(x)] /\ file.complete /\ file.state = StateRun)
              => /\ file' = file
                 /\ flockHolder' = NoHandle
                 /\ \A h \in Handles : ~locked'[h]
       /\ (/\ ret.op = "crash"
           /\ file.exists /\ file.complete /\ file.state = StateRun
           /\ flockHolder = NoHandle)
            => /\ file'.state = StateRun
               /\ \A g \in Goroutines :
                    /\ Returned(g, "update", ret'.err)
                         => HttpStatus("install", ret'.err) = 409
                    /\ Returned(g, "commit", ret'.err)
                         => CommitStatus(ret'.err) = 409
               /\ \A x \in Executors :
                    Returned(x, "start", ret'.err) => ret'.err = ErrConflict]_vars

----------------------------------------------------------------------------
\* C30: when the executor driver finds the record in a state other than
\* Prepare, it returns without error and leaves operations.json, the
\* temporary files and the lock as they were; what it logs is the state of
\* the record it found.
C30_RunOnStartedRecord ==
    [][(/\ ret'.actor = Unit
        /\ file.exists
        /\ file.complete
        /\ file.state # StatePrepare)
          => /\ ret'.err = OK
             /\ ret'.cause = ErrConflict
             /\ ret'.ops.state = file.state
             /\ ret'.attempts = 0
             /\ file' = file
             /\ tmp' = tmp
             /\ flockHolder' = flockHolder
             /\ locked' = locked]_vars

\* the driver has been launched on a record that another executor, which
\* still holds the lock, had moved to Done
C30_Witness ==
    /\ ret.actor = Unit
    /\ ret.err = OK
    /\ ret.cause = ErrConflict
    /\ file.state = StateDone
    /\ file.error = ""
    /\ flockHolder \in {Handle(x) : x \in Executors}

----------------------------------------------------------------------------
\* C31: the executor driver exits with an error exactly when a state
\* transition could not be persisted, that is when the withRetry of Start (or
\* of the final Done) gave up after its attempts; every other outcome exits
\* without error.
C31_RunExitCode ==
    [][Run => ((ret'.err # OK) <=> (ret'.attempts = maxRetries))]_vars

----------------------------------------------------------------------------
\* C32: the failure paths of the executor driver. A run of the driver on a
\* committed plan that does not end in Done records the failure: it leaves the
\* record in Prepare with the error of the first failure (rolled back) or in
\* Broken with the error of the failed rollback. The two finalizations it
\* uses do that: RolledBack(cause) persists Prepare with the message of the
\* cause, Broken(cause) persists Broken with the message of the cause.
C32_FailurePaths ==
    [][/\ (/\ Run
           /\ file.exists /\ file.complete /\ file.state = StatePrepare
           /\ ~PlanIsEmpty(LoadOperations(file).ops))
            => \/ file'.state = StateDone
               \/ file'.state = StatePrepare /\ file'.error # ""
               \/ file'.state = "Broken" /\ file'.error # ""
       /\ \A x \in Executors :
            /\ (Renames(x) /\ call[x].op = "rolledback" /\ call[x].errInfo # None)
                 => /\ file'.state = StatePrepare
                    /\ file'.error = Msg(call[x].errInfo)
            /\ (Renames(x) /\ call[x].op = "broken")
                 => /\ file'.state = "Broken"
                    /\ file'.error = Msg(call[x].errInfo)]_vars

----------------------------------------------------------------------------
----------------------------------------------------------------------------
\* C34: when a persist returns, to Update or to updateState, the temp file it
\* created is gone from the state directory; when it returns an error,
\* operations.json is what it was, and when it returns nil, operations.json is
\* the whole record it was given.
C34_PersistCleansUp ==
    [][\A a \in Actors :
         (pc[a] = "persist" /\ pc'[a] # "persist" /\ ret'.op # "crash")
           => /\ tmp'[a] = NoFile
              /\ \A b \in Actors \ {a} : tmp'[b] = tmp[b]
              /\ IF ret'.actor = a /\ ret'.err = OK
                 THEN file' = Marshal(call[a].ops)
                 ELSE file' = file]_vars

\* the persist of a staging request has failed on a state directory that
\* held a record: the request was answered with the error, no temp file is
\* left and the record is still in place
C34_Witness ==
    /\ ret.actor \in Goroutines
    /\ ret.op = "update"
    /\ ret.err = ErrPersist
    /\ \A a \in Actors : tmp[a] = NoFile
    /\ file.exists /\ file.complete

----------------------------------------------------------------------------
\* the names of list that are not in seen, each once, in the order of list
RECURSIVE NewNames(_, _)
NewNames(list, seen) ==
    IF list = <<>> THEN <<>>
    ELSE IF Contains(seen, Head(list)) THEN NewNames(Tail(list), seen)
    ELSE <<Head(list)>> \o NewNames(Tail(list), Append(seen, Head(list)))

\* the listing without the package of groom itself
RECURSIVE WithoutSelf(_)
WithoutSelf(list) ==
    IF list = <<>> THEN <<>>
    ELSE IF Head(list) = SelfPackageName THEN WithoutSelf(Tail(list))
    ELSE <<Head(list)>> \o WithoutSelf(Tail(list))

\* C35: DELETE /installed/. When the listing holds no package but groom
\* itself, the request is answered 200 at once: no Update, no lock, and the
\* state file is as it was (absent if it was absent). Otherwise it enters one
\* Update with the names of the listing in listing order, groom itself left
\* out; what that Update persists is the loaded record with those names
\* appended to its remove list, in that order, the names it already held not
\* repeated, and state, install list and error untouched; when the persist
\* completes the request is answered 202.
C35_PurgeAll ==
    [][\A g \in Goroutines :
         /\ \A o \in PurgeOrders :
              StagePurgeAll(g, o)
                => IF WithoutSelf(o) = <<>>
                   THEN /\ Returned(g, "stage", OK)
                        /\ PurgeStatus(PackagesToRemove(o), ret'.err) = 200
                        /\ pc'[g] = "done"
                        /\ UNCHANGED <<file, tmp, flockHolder, locked>>
                   ELSE /\ file' = file
                        /\ \/ /\ pc'[g] = "update"
                              /\ call'[g].op = "purge"
                              /\ call'[g].names = WithoutSelf(o)
                              /\ locked'[Handle(g)]
                           \/ /\ Returned(g, "update", ErrInProgress)
                              /\ PurgeStatus(PackagesToRemove(o), ret'.err) = 409
         /\ (pc[g] = "update" /\ call[g].op = "purge" /\ pc'[g] = "persist")
              => /\ call'[g].ops.state = UpdateLoaded(file).state
                 /\ call'[g].ops.install = UpdateLoaded(file).install
                 /\ call'[g].ops.err = UpdateLoaded(file).err
                 /\ Items(call'[g].ops.remove) =
                        Items(UpdateLoaded(file).remove)
                          \o NewNames(call[g].names, Items(UpdateLoaded(file).remove))
         /\ (Renames(g) /\ call[g].op = "purge")
              => /\ file' = Marshal(call[g].ops)
                 /\ PurgeStatus(call[g].names, ret'.err) = 202]_vars

\* the directory listed app then lib, the plan already held the removal of
\* lib: the Update of the purge is persisting lib, then app
C35_Witness ==
    \E g \in Goroutines :
        /\ pc[g] = "persist"
        /\ call[g].op = "purge"
        /\ call[g].names = <<"app", "lib">>
        /\ Items(call[g].ops.remove) = <<"lib", "app">>
        /\ file.remove = <<"lib">>

----------------------------------------------------------------------------
\* C36: a transition of the ExecutorAPI (Start, Done, RolledBack, Broken)
\* changes the state and the error only: the record an attempt of
\* updateState begins to persist has the install and remove lists of the
\* record it has just loaded, and the record its completed persist leaves in
\* operations.json has those lists.
C36_TransitionKeepsPlan ==
    [][\A x \in Executors :
         /\ (pc[x] \in {"idle", "retry"} /\ pc'[x] = "persist")
              => /\ call'[x].op \in {"start", "done", "rolledback", "broken"}
                 /\ call'[x].ops.install = LoadOperations(file).ops.install
                 /\ call'[x].ops.remove = LoadOperations(file).ops.remove
                 /\ Items(call'[x].ops.install) = file.install
                 /\ Items(call'[x].ops.remove) = file.remove
                 /\ call'[x].ops.state = call'[x].newState
                 /\ file' = file
         /\ Renames(x)
              => /\ file'.install = Items(call[x].ops.install)
                 /\ file'.remove = Items(call[x].ops.remove)
                 /\ file'.state = call[x].newState]_vars

\* a plan with an install and a removal has been rolled back: the record is
\* in Prepare with the error and still holds both entries
C36_Witness ==
    /\ ret.actor \in Executors
    /\ ret.op = "rolledback"
    /\ ret.err = OK
    /\ file.state = StatePrepare
    /\ file.error # ""
    /\ Len(file.install) > 0
    /\ Len(file.remove) > 0

----------------------------------------------------------------------------
\* C37: a staging request (install, remove, purge) that completes leaves the
\* state and the recorded error of operations.json as they were; in
\* particular the error of a rolled back transaction outlives any number of
\* staging requests.
C37_StagingKeepsError ==
    [][\A g \in Goroutines :
         (/\ Renames(g)
          /\ call[g].op \in {"install", "remove", "purge"}
          /\ file.exists /\ file.complete)
           => /\ file'.state = file.state
              /\ file'.error = file.error]_vars

----------------------------------------------------------------------------
\* C38: every return of Update that follows a successful tryLock (failed
\* load, record not in Prepare, callback error, failed persist, success)
\* leaves the store's handle unlocked and the lock not held by the store, so
\* that a tryLock or Lock of another process finds it free unless a third
\* party took it; a return with the callback's error leaves operations.json
\* as it was and creates no temp file.
C38_UpdateUnlocks ==
    [][\A g \in Goroutines :
         /\ (pc[g] \in {"update", "persist"} /\ ret'.actor = g)
              => /\ ret'.op = "update"
                 /\ ret'.err \in {OK, ErrCorrupt, ErrInProgress, ErrCallback, ErrPersist}
                 /\ ~locked'[Handle(g)]
                 /\ flockHolder' # Handle(g)
                 /\ flockHolder = Handle(g) => flockHolder' = NoHandle
                 /\ \A x \in Executors :
                       flockHolder \in {NoHandle, Handle(g)}
                         => \/ locked'[Handle(x)]
                            \/ flockHolder' = NoHandle
                 /\ ret'.err # OK => file' = file
         /\ Returned(g, "update", ErrCallback)
              => /\ pc[g] = "update"
                 /\ file' = file
                 /\ tmp' = tmp
                 /\ tmp'[g] = NoFile]_vars

\* an Update whose callback returned an error has returned on a state
\* directory that held a plan: the plan is in place, no temp file exists and
\* the lock is free
C38_Witness ==
    /\ ret.actor \in Goroutines
    /\ ret.op = "update"
    /\ ret.err = ErrCallback
    /\ file.exists /\ file.state = StatePrepare
    /\ \A a \in Actors : tmp[a] = NoFile
    /\ flockHolder = NoHandle
    /\ \A h \in Handles : ~locked[h]

----------------------------------------------------------------------------
\* C39: from the 202 of POST /transaction, while the unit it launched runs
\* and the record is still in Prepare (no start() has succeeded), no step
\* changes the install and remove lists of operations.json, so that start()
\* loads the lists the commit handler read.
C39_CommittedPlanIsApplied ==
    [][(/\ pc[Unit] = "started"
        /\ file.exists
        /\ file.state = StatePrepare)
         => /\ file'.install = file.install
            /\ file'.remove = file.remove]_vars

====
